---- MODULE Spec2Model ----
(***************************************************************************)
(* Model of the QR Code encoder (Encoder, QRNumeric) of the repository.    *)
(*                                                                         *)
(* Every operation of the encoder is a synchronous function of its         *)
(* arguments, so the state of a run is the call being made (args), the     *)
(* position of the call (pc) and what the call produced (result).  Each    *)
(* specification below draws the arguments of one operation from bounded   *)
(* sets and applies the operation, translated from its code, in one step.  *)
(*                                                                         *)
(* A BitArray is modelled by the sequence of appendBits(value, numBits)    *)
(* calls made on it, each a pair <<value, numBits>>; Bits expands the      *)
(* calls to the bits they write, most significant bit first.               *)
(***************************************************************************)
EXTENDS Integers, Sequences, FiniteSets, TLC

VARIABLES pc, args, result

vars == <<pc, args, result>>

Pending == [status |-> "pending"]

(***************************************************************************)
(* Version and ECBlocks tables (Annex D of the standard): total codewords  *)
(* per version and data codewords per version and level.                   *)
(***************************************************************************)
ErrorCorrectionLevels == {"L", "M", "Q", "H"}

NumVersions == 40

Versions == 1..NumVersions

TotalCodewordsTable ==
  <<26, 44, 70, 100, 134, 172, 196, 242, 292, 346,
    404, 466, 532, 581, 655, 733, 815, 901, 991, 1085,
    1156, 1258, 1364, 1474, 1588, 1706, 1828, 1921, 2051, 2185,
    2323, 2465, 2611, 2761, 2876, 3034, 3196, 3362, 3532, 3706>>

\* data codewords, one row per version: <<L, M, Q, H>>
DataCodewordsTable ==
  << <<19, 16, 13, 9>>,         <<34, 28, 22, 16>>,
     <<55, 44, 34, 26>>,        <<80, 64, 48, 36>>,
     <<108, 86, 62, 46>>,       <<136, 108, 76, 60>>,
     <<156, 124, 88, 66>>,      <<194, 154, 110, 86>>,
     <<232, 182, 132, 100>>,    <<274, 216, 154, 122>>,
     <<324, 254, 180, 140>>,    <<370, 290, 206, 158>>,
     <<428, 334, 244, 180>>,    <<461, 365, 261, 197>>,
     <<523, 415, 295, 223>>,    <<589, 453, 325, 253>>,
     <<647, 507, 367, 283>>,    <<721, 563, 397, 313>>,
     <<795, 627, 445, 341>>,    <<861, 669, 485, 385>>,
     <<932, 714, 512, 406>>,    <<1006, 782, 568, 442>>,
     <<1094, 860, 614, 464>>,   <<1174, 914, 664, 514>>,
     <<1276, 1000, 718, 538>>,  <<1370, 1062, 754, 596>>,
     <<1468, 1128, 808, 628>>,  <<1531, 1193, 871, 661>>,
     <<1631, 1267, 911, 701>>,  <<1735, 1373, 985, 745>>,
     <<1843, 1455, 1033, 793>>, <<1955, 1541, 1115, 845>>,
     <<2071, 1631, 1171, 901>>, <<2191, 1725, 1231, 961>>,
     <<2306, 1812, 1286, 986>>, <<2434, 1914, 1354, 1054>>,
     <<2566, 1992, 1426, 1096>>, <<2702, 2102, 1502, 1142>>,
     <<2812, 2216, 1582, 1222>>, <<2956, 2334, 1666, 1276>> >>

LevelIndex(ecLevel) ==
  CASE ecLevel = "L" -> 1 [] ecLevel = "M" -> 2 [] ecLevel = "Q" -> 3 [] ecLevel = "H" -> 4

\* Version.getTotalCodewords
getTotalCodewords(version) == TotalCodewordsTable[version]

\* Version.getECBlocksForLevel(ecLevel).getTotalECCodewords
getTotalECCodewords(version, ecLevel) ==
  TotalCodewordsTable[version] - DataCodewordsTable[version][LevelIndex(ecLevel)]

\* the data codewords of a version at a level, as the standard tabulates them
numDataCodewords(version, ecLevel) == DataCodewordsTable[version][LevelIndex(ecLevel)]

(***************************************************************************)
(* Encoder.willFit.  The quotient (numInputBits + 7) / 8 is a floating     *)
(* point division in the source; numDataBytes >= q for the exact quotient  *)
(* q = (numInputBits + 7) / 8 is 8 * numDataBytes >= numInputBits + 7.     *)
(***************************************************************************)
willFit_totalBytes(numInputBits, version, ecLevel) ==
  LET numBytes == getTotalCodewords(version)
  IN  8 * numBytes >= numInputBits + 7

willFit(numInputBits, version, ecLevel) ==
  LET numBytes     == getTotalCodewords(version)
      numEcBytes   == getTotalECCodewords(version, ecLevel)
      numDataBytes == numBytes - numEcBytes
  IN  8 * numDataBytes >= numInputBits + 7

\* a thrown WriterException
Thrown(msg) == [status |-> "error", message |-> msg]

(***************************************************************************)
(* Encoder.chooseVersion: the first version of 1..40 that fits, else the   *)
(* exception 'Data too big'.                                               *)
(***************************************************************************)
RECURSIVE chooseVersionFrom(_, _, _)
chooseVersionFrom(versionNum, numInputBits, ecLevel) ==
  IF versionNum <= 40
  THEN IF willFit(numInputBits, versionNum, ecLevel)
       THEN [status |-> "ok", version |-> versionNum]
       ELSE chooseVersionFrom(versionNum + 1, numInputBits, ecLevel)
  ELSE Thrown("Data too big")

chooseVersion(numInputBits, ecLevel) == chooseVersionFrom(1, numInputBits, ecLevel)

(***************************************************************************)
(* SpecFit: chooseVersion applied to every bit count of 0..MaxInputBits    *)
(* at every level.                                                         *)
(***************************************************************************)
MaxInputBits == 23660

InitFit ==
  /\ pc = "ready"
  /\ args \in [numInputBits : 0..MaxInputBits, ecLevel : ErrorCorrectionLevels]
  /\ result = Pending

ChooseVersion ==
  /\ pc = "ready"
  /\ result' = chooseVersion(args.numInputBits, args.ecLevel)
  /\ pc' = "done"
  /\ UNCHANGED args

NextFit == ChooseVersion

SpecFit == InitFit /\ [][NextFit]_vars

\* ceil(n / 8)
CeilDiv8(n) == (n + 7) \div 8

\* the versions whose data codewords hold numInputBits bits
FittingVersions(numInputBits, ecLevel) ==
  {v \in Versions : CeilDiv8(numInputBits) <= numDataCodewords(v, ecLevel)}

Min(S) == CHOOSE x \in S : \A y \in S : x <= y

\* C1: chooseVersion returns the smallest version of 1..40 whose data
\* codewords are at least ceil(numInputBits / 8), willFit is true exactly when
\* ceil(numInputBits / 8) <= numDataBytes(version, ecLevel), and 'Data too
\* big' is raised only when no version of 1..40 satisfies this.
C1_SmallestFittingVersion ==
  pc = "done" =>
    LET fits == FittingVersions(args.numInputBits, args.ecLevel)
    IN  /\ \A v \in Versions :
             willFit(args.numInputBits, v, args.ecLevel) <=> v \in fits
        /\ IF fits = {}
           THEN result.status = "error"
           ELSE result.status = "ok" /\ result.version = Min(fits)

(***************************************************************************)
(* Characters are UTF-16 code units; a content string is a sequence of     *)
(* them.  Character codes used below:                                      *)
(*   32 ' '  48 '0'  55 '7'  57 '9'  58 ':'  64 '@'  65 'A'  90 'Z'        *)
(*   97 'a'  8364 euro sign  28857 and 33559 kanji of JIS X 0208           *)
(*   65377..65439 half-width katakana  32394 a kanji of the IBM extension  *)
(***************************************************************************)
Modes == {"NUMERIC", "ALPHANUMERIC", "BYTE", "KANJI"}

\* Encoder.ALPHANUMERIC_TABLE, entry [code + 1] for character code 0..95
ALPHANUMERIC_TABLE ==
  <<-1, -1, -1, -1, -1, -1, -1, -1, -1, -1, -1, -1, -1, -1, -1, -1,
    -1, -1, -1, -1, -1, -1, -1, -1, -1, -1, -1, -1, -1, -1, -1, -1,
    36, -1, -1, -1, 37, 38, -1, -1, -1, -1, 39, 40, -1, 41, 42, 43,
    0, 1, 2, 3, 4, 5, 6, 7, 8, 9, 44, -1, -1, -1, -1, -1,
    -1, 10, 11, 12, 13, 14, 15, 16, 17, 18, 19, 20, 21, 22, 23, 24,
    25, 26, 27, 28, 29, 30, 31, 32, 33, 34, 35, -1, -1, -1, -1, -1>>

\* Encoder.getAlphanumericCode
getAlphanumericCode(code) ==
  IF code < Len(ALPHANUMERIC_TABLE) THEN ALPHANUMERIC_TABLE[code + 1] ELSE -1

\* Encoder.getDigit
getDigit(singleCharacter) == singleCharacter - 48

\* Encoder.isDigit
isDigit(singleCharacter) ==
  LET cn == getDigit(singleCharacter) IN cn >= 0 /\ cn <= 9

(***************************************************************************)
(* StringEncoding.encode for the charsets the encoder names.  A character  *)
(* the charset cannot represent makes encode throw.                        *)
(***************************************************************************)
EncodingNames == {"UTF8", "SJIS", "ISO8859_1"}

\* Encoder.DEFAULT_BYTE_MODE_ENCODING
DEFAULT_BYTE_MODE_ENCODING == "UTF8"

\* Shift_JIS bytes of one character; <<>> when Shift_JIS has no code for it
SJISCharBytes(c) ==
  CASE c < 128   -> <<c>>
    [] c = 28857 -> <<147, 95>>     \* 0x935F
    [] c = 33559 -> <<228, 170>>    \* 0xE4AA
    [] c \in 65377..65439 -> <<c - 65216>>   \* half-width katakana, 0xA1..0xDF
    [] c = 32394 -> <<250, 92>>     \* 0xFA5C
    [] OTHER     -> <<>>

UTF8CharBytes(c) ==
  CASE c < 128  -> <<c>>
    [] c < 2048 -> <<192 + (c \div 64), 128 + (c % 64)>>
    [] OTHER    -> <<224 + (c \div 4096), 128 + ((c \div 64) % 64), 128 + (c % 64)>>

CharBytes(c, encoding) ==
  CASE encoding = "SJIS"      -> SJISCharBytes(c)
    [] encoding = "ISO8859_1" -> IF c < 256 THEN <<c>> ELSE <<>>
    [] OTHER                  -> UTF8CharBytes(c)

\* the bytes of content[lo..hi], by halving the range
RECURSIVE EncodeRange(_, _, _, _)
EncodeRange(content, lo, hi, encoding) ==
  IF lo > hi THEN <<>>
  ELSE IF lo = hi THEN CharBytes(content[lo], encoding)
  ELSE LET mid == (lo + hi) \div 2
       IN  EncodeRange(content, lo, mid, encoding) \o EncodeRange(content, mid + 1, hi, encoding)

CanEncode(content, encoding) ==
  \A i \in 1..Len(content) : CharBytes(content[i], encoding) # <<>>

\* StringEncoding.encode: [ok, bytes]
StringEncoding_encode(content, encoding) ==
  IF CanEncode(content, encoding)
  THEN [ok |-> TRUE, bytes |-> EncodeRange(content, 1, Len(content), encoding)]
  ELSE [ok |-> FALSE, bytes |-> <<>>]

(***************************************************************************)
(* Encoder.isOnlyDoubleByteKanji                                           *)
(***************************************************************************)
isOnlyDoubleByteKanji(content) ==
  LET enc    == StringEncoding_encode(content, "SJIS")
      bytes  == enc.bytes
      length == Len(bytes)
  IN  IF ~enc.ok THEN FALSE
      ELSE IF length % 2 # 0 THEN FALSE
      ELSE \A k \in 0..((length \div 2) - 1) :
             LET byte1 == bytes[2 * k + 1] % 256
             IN  ~((byte1 < 129 \/ byte1 > 159) /\ (byte1 < 224 \/ byte1 > 235))

(***************************************************************************)
(* Encoder.chooseMode.  The state of its loop is the two flags and the     *)
(* mode returned from inside the loop ("none" while the loop runs on).     *)
(* chooseModeScan runs the loop over content[lo..hi] by halving the range, *)
(* which visits the characters in the order of the loop.                   *)
(***************************************************************************)
chooseModeStep(st, c) ==
  IF st.ret # "none" THEN st
  ELSE IF isDigit(c) THEN [st EXCEPT !.hasNumeric = TRUE]
  ELSE IF getAlphanumericCode(c) # -1 THEN [st EXCEPT !.hasAlphanumeric = TRUE]
  ELSE [st EXCEPT !.ret = "BYTE"]

RECURSIVE chooseModeScan(_, _, _, _)
chooseModeScan(content, lo, hi, st) ==
  IF st.ret # "none" \/ lo > hi THEN st
  ELSE IF lo = hi THEN chooseModeStep(st, content[lo])
  ELSE LET mid == (lo + hi) \div 2
       IN  chooseModeScan(content, mid + 1, hi, chooseModeScan(content, lo, mid, st))

chooseMode_numericFirst(content, encoding) ==
  IF "SJIS" = encoding /\ isOnlyDoubleByteKanji(content) THEN "KANJI"
  ELSE LET st == chooseModeScan(content, 1, Len(content),
                   [hasNumeric |-> FALSE, hasAlphanumeric |-> FALSE, ret |-> "none"])
       IN  IF st.ret # "none" THEN st.ret
           ELSE IF st.hasNumeric THEN "NUMERIC"
           ELSE IF st.hasAlphanumeric THEN "ALPHANUMERIC"
           ELSE "BYTE"

chooseMode(content, encoding) ==
  IF "SJIS" = encoding /\ isOnlyDoubleByteKanji(content) THEN "KANJI"
  ELSE LET st == chooseModeScan(content, 1, Len(content),
                   [hasNumeric |-> FALSE, hasAlphanumeric |-> FALSE, ret |-> "none"])
       IN  IF st.ret # "none" THEN st.ret
           ELSE IF st.hasAlphanumeric THEN "ALPHANUMERIC"
           ELSE IF st.hasNumeric THEN "NUMERIC"
           ELSE "BYTE"

\* all sequences over S of length 0..n
SeqsUpTo(S, n) == UNION {[1..k -> S] : k \in 0..n}

(***************************************************************************)
(* SpecMode: chooseMode applied to every one-character content of code     *)
(* 0..MaxCharCode and every content of up to MaxModeLen characters of      *)
(* ModeChars, under every encoding argument (null included).               *)
(***************************************************************************)
MaxCharCode == 130

MaxModeLen == 3

ModeChars == {48, 55, 65, 58, 32, 97, 64, 28857}

ModeContents == {<<c>> : c \in 0..MaxCharCode} \cup SeqsUpTo(ModeChars, MaxModeLen)

InitMode ==
  /\ pc = "ready"
  /\ args \in [content : ModeContents, encoding : EncodingNames \cup {"null"}]
  /\ result = Pending

ChooseMode ==
  /\ pc = "ready"
  /\ result' = [status |-> "ok", mode |-> chooseMode(args.content, args.encoding)]
  /\ pc' = "done"
  /\ UNCHANGED args

NextMode == ChooseMode

SpecMode == InitMode /\ [][NextMode]_vars

\* the 45 characters of alphanumeric mode: 0-9, A-Z, space, $ % * + - . / :
AlphanumericSet == (48..57) \cup (65..90) \cup {32, 36, 37, 42, 43, 45, 46, 47, 58}

DigitSet == 48..57

CharsOf(content) == {content[i] : i \in 1..Len(content)}

\* the Kanji rule: the declared encoding is Shift_JIS and the content is only
\* double-byte Kanji
KanjiRuleApplies(content, encoding) ==
  encoding = "SJIS" /\ isOnlyDoubleByteKanji(content)

\* C4: when the Kanji rule does not apply, chooseMode returns Byte if any
\* character is outside the 45-character alphanumeric set, otherwise
\* Alphanumeric if any character is not a digit, otherwise Numeric if there
\* is at least one digit: the mode is a function of the set of character
\* classes present.
C4_ModeByCharacterClasses ==
  (pc = "done" /\ ~KanjiRuleApplies(args.content, args.encoding)) =>
    LET chars == CharsOf(args.content)
    IN  /\ (chars \ AlphanumericSet # {}) => result.mode = "BYTE"
        /\ (chars \subseteq AlphanumericSet /\ chars \ DigitSet # {})
             => result.mode = "ALPHANUMERIC"
        /\ (chars \subseteq DigitSet /\ chars # {}) => result.mode = "NUMERIC"

\* a content with a letter before a digit was classified Alphanumeric
C4_Witness ==
  /\ pc = "done"
  /\ args.content = <<65, 48, 55>>
  /\ args.encoding = "SJIS"
  /\ result.mode = "ALPHANUMERIC"

(***************************************************************************)
(* Mode: the 4-bit indicator and the width of the character count field.   *)
(***************************************************************************)
\* Mode.getBits
getBits(mode) ==
  CASE mode = "NUMERIC"      -> 1
    [] mode = "ALPHANUMERIC" -> 2
    [] mode = "BYTE"         -> 4
    [] mode = "KANJI"        -> 8
    [] mode = "ECI"          -> 7

CharacterCountBitsTable(mode) ==
  CASE mode = "NUMERIC"      -> <<10, 12, 14>>
    [] mode = "ALPHANUMERIC" -> <<9, 11, 13>>
    [] mode = "BYTE"         -> <<8, 16, 16>>
    [] mode = "KANJI"        -> <<8, 10, 12>>

\* Mode.getCharacterCountBits
getCharacterCountBits(mode, version) ==
  LET offset == IF version <= 9 THEN 1 ELSE IF version <= 26 THEN 2 ELSE 3
  IN  CharacterCountBitsTable(mode)[offset]

\* CharacterSetECI.getCharacterSetECIByName(name).getValue(); -1 for null
getCharacterSetECIByName(name) ==
  CASE name = "UTF8"      -> 26
    [] name = "SJIS"      -> 20
    [] name = "ISO8859_1" -> 1
    [] OTHER              -> -1

(***************************************************************************)
(* BitArray                                                                *)
(***************************************************************************)
\* the sum of the widths of bits[lo..hi], by halving the range
RECURSIVE SumWidths(_, _, _)
SumWidths(bits, lo, hi) ==
  IF lo > hi THEN 0
  ELSE IF lo = hi THEN bits[lo][2]
  ELSE LET mid == (lo + hi) \div 2
       IN  SumWidths(bits, lo, mid) + SumWidths(bits, mid + 1, hi)

\* BitArray.getSize
getSize(bits) == SumWidths(bits, 1, Len(bits))

\* BitArray.getSizeInBytes
getSizeInBytes(bits) == (getSize(bits) + 7) \div 8

Pow2(n) == 2 ^ n

\* the numBits low bits of value, most significant first
BitsOf(value, numBits) ==
  [k \in 1..numBits |-> (value \div Pow2(numBits - k)) % 2]

\* the bits a BitArray holds
RECURSIVE Bits(_)
Bits(bits) ==
  IF bits = <<>> THEN <<>>
  ELSE Bits(SubSeq(bits, 1, Len(bits) - 1)) \o BitsOf(bits[Len(bits)][1], bits[Len(bits)][2])

(***************************************************************************)
(* Encoder.appendNumericBytes.  The state of the while loop is the index i *)
(* (from 0, as in the source) and the appends made so far; numericRun runs *)
(* the loop until i reaches bound, by halving the distance.                *)
(***************************************************************************)
numericBody_pairIn8(content, st) ==
  LET length == Len(content)
      i      == st.i
      num1   == getDigit(content[i + 1])
  IN  IF i + 2 < length
      THEN LET num2 == getDigit(content[i + 2])
               num3 == getDigit(content[i + 3])
           IN  [i |-> i + 3, bits |-> Append(st.bits, <<num1 * 100 + num2 * 10 + num3, 10>>)]
      ELSE IF i + 1 < length
      THEN LET num2 == getDigit(content[i + 2])
           IN  [i |-> i + 2, bits |-> Append(st.bits, <<num1 * 10 + num2, 8>>)]
      ELSE [i |-> i + 1, bits |-> Append(st.bits, <<num1, 4>>)]

numericBody(content, st) ==
  LET length == Len(content)
      i      == st.i
      num1   == getDigit(content[i + 1])
  IN  IF i + 2 < length
      THEN LET num2 == getDigit(content[i + 2])
               num3 == getDigit(content[i + 3])
           IN  [i |-> i + 3, bits |-> Append(st.bits, <<num1 * 100 + num2 * 10 + num3, 10>>)]
      ELSE IF i + 1 < length
      THEN LET num2 == getDigit(content[i + 2])
           IN  [i |-> i + 2, bits |-> Append(st.bits, <<num1 * 10 + num2, 7>>)]
      ELSE [i |-> i + 1, bits |-> Append(st.bits, <<num1, 4>>)]

RECURSIVE numericRun(_, _, _)
numericRun(content, st, bound) ==
  IF st.i >= bound THEN st
  ELSE IF bound - st.i <= 1 THEN numericBody(content, st)
  ELSE LET mid == (st.i + bound) \div 2
       IN  numericRun(content, numericRun(content, st, mid), bound)

appendNumericBytes(content, bits) ==
  [err |-> "", bits |-> numericRun(content, [i |-> 0, bits |-> bits], Len(content)).bits]

(***************************************************************************)
(* Encoder.appendAlphanumericBytes; err is set when the loop throws.       *)
(***************************************************************************)
alphanumericBody_times44(content, st) ==
  LET length == Len(content)
      i      == st.i
      code1  == getAlphanumericCode(content[i + 1])
  IN  IF code1 = -1 THEN [st EXCEPT !.err = "WriterException"]
      ELSE IF i + 1 < length
      THEN LET code2 == getAlphanumericCode(content[i + 2])
           IN  IF code2 = -1 THEN [st EXCEPT !.err = "WriterException"]
               ELSE [st EXCEPT !.i = i + 2,
                               !.bits = Append(st.bits, <<code1 * 44 + code2, 11>>)]
      ELSE [st EXCEPT !.i = i + 1, !.bits = Append(st.bits, <<code1, 6>>)]

alphanumericBody(content, st) ==
  LET length == Len(content)
      i      == st.i
      code1  == getAlphanumericCode(content[i + 1])
  IN  IF code1 = -1 THEN [st EXCEPT !.err = "WriterException"]
      ELSE IF i + 1 < length
      THEN LET code2 == getAlphanumericCode(content[i + 2])
           IN  IF code2 = -1 THEN [st EXCEPT !.err = "WriterException"]
               ELSE [st EXCEPT !.i = i + 2,
                               !.bits = Append(st.bits, <<code1 * 45 + code2, 11>>)]
      ELSE [st EXCEPT !.i = i + 1, !.bits = Append(st.bits, <<code1, 6>>)]

RECURSIVE alphanumericRun(_, _, _)
alphanumericRun(content, st, bound) ==
  IF st.err # "" \/ st.i >= bound THEN st
  ELSE IF bound - st.i <= 1 THEN alphanumericBody(content, st)
  ELSE LET mid == (st.i + bound) \div 2
       IN  alphanumericRun(content, alphanumericRun(content, st, mid), bound)

appendAlphanumericBytes(content, bits) ==
  LET st == alphanumericRun(content, [i |-> 0, bits |-> bits, err |-> ""], Len(content))
  IN  [err |-> st.err, bits |-> st.bits]

(***************************************************************************)
(* Encoder.append8BitBytes                                                 *)
(***************************************************************************)
append8BitBytes(content, bits, encoding) ==
  LET enc == StringEncoding_encode(content, encoding)
  IN  IF ~enc.ok THEN [err |-> "WriterException", bits |-> bits]
      ELSE [err |-> "", bits |-> bits \o [k \in 1..Len(enc.bytes) |-> <<enc.bytes[k], 8>>]]

(***************************************************************************)
(* Encoder.appendKanjiBytes.  bytes[i + 1] past the end of the array is    *)
(* undefined, and undefined & 0xff is 0.                                   *)
(***************************************************************************)
kanjiBody_oneRange(bytes, st) ==
  LET length == Len(bytes)
      i      == st.i
      byte1  == bytes[i + 1] % 256
      byte2  == IF i + 1 < length THEN bytes[i + 2] % 256 ELSE 0
      code   == byte1 * 256 + byte2
      subtracted == IF code >= 33088 /\ code <= 40956 THEN code - 33088
                    ELSE IF code >= 57408 /\ code <= 60351 THEN code - 33088
                    ELSE -1
  IN  IF subtracted = -1 THEN [st EXCEPT !.err = "Invalid byte sequence"]
      ELSE LET encoded == (subtracted \div 256) * 192 + (subtracted % 256)
           IN  [st EXCEPT !.i = i + 2, !.bits = Append(st.bits, <<encoded, 13>>)]

kanjiBody(bytes, st) ==
  LET length == Len(bytes)
      i      == st.i
      byte1  == bytes[i + 1] % 256
      byte2  == IF i + 1 < length THEN bytes[i + 2] % 256 ELSE 0
      code   == byte1 * 256 + byte2
      subtracted == IF code >= 33088 /\ code <= 40956 THEN code - 33088      \* 0x8140..0x9ffc
                    ELSE IF code >= 57408 /\ code <= 60351 THEN code - 49472 \* 0xe040..0xebbf, 0xc140
                    ELSE -1
  IN  IF subtracted = -1 THEN [st EXCEPT !.err = "Invalid byte sequence"]
      ELSE LET encoded == (subtracted \div 256) * 192 + (subtracted % 256)
           IN  [st EXCEPT !.i = i + 2, !.bits = Append(st.bits, <<encoded, 13>>)]

RECURSIVE kanjiRun(_, _, _)
kanjiRun(bytes, st, bound) ==
  IF st.err # "" \/ st.i >= bound THEN st
  ELSE IF bound - st.i <= 1 THEN kanjiBody(bytes, st)
  ELSE LET mid == (st.i + bound) \div 2
       IN  kanjiRun(bytes, kanjiRun(bytes, st, mid), bound)

appendKanjiBytes(content, bits) ==
  LET enc == StringEncoding_encode(content, "SJIS")
  IN  IF ~enc.ok THEN [err |-> "WriterException", bits |-> bits]
      ELSE LET st == kanjiRun(enc.bytes, [i |-> 0, bits |-> bits, err |-> ""], Len(enc.bytes))
           IN  [err |-> st.err, bits |-> st.bits]

\* Encoder.appendBytes
appendBytes(content, mode, bits, encoding) ==
  CASE mode = "NUMERIC"      -> appendNumericBytes(content, bits)
    [] mode = "ALPHANUMERIC" -> appendAlphanumericBytes(content, bits)
    [] mode = "BYTE"         -> append8BitBytes(content, bits, encoding)
    [] mode = "KANJI"        -> appendKanjiBytes(content, bits)
    [] OTHER                 -> [err |-> "Invalid mode", bits |-> bits]

(***************************************************************************)
(* Encoder.terminateBits                                                   *)
(***************************************************************************)
\* the loop for (i = 0; i < 4 && bits.getSize() < capacity; ++i) appendBit(false)
RECURSIVE appendTerminator(_, _, _)
appendTerminator(i, bits, capacity) ==
  IF i < 4 /\ getSize(bits) < capacity
  THEN appendTerminator(i + 1, Append(bits, <<0, 1>>), capacity)
  ELSE bits

terminateBits_padFrom11(numDataBytes, bits) ==
  LET capacity == numDataBytes * 8
  IN  IF getSize(bits) > capacity
      THEN [err |-> "data bits cannot fit in the QR Code", bits |-> bits]
      ELSE
        LET terminated == appendTerminator(0, bits, capacity)
            numBitsInLastByte == getSize(terminated) % 8
            aligned == IF numBitsInLastByte > 0
                       THEN terminated \o [k \in 1..(8 - numBitsInLastByte) |-> <<0, 1>>]
                       ELSE terminated
            numPaddingBytes == numDataBytes - getSizeInBytes(aligned)
            padded == aligned \o [k \in 1..numPaddingBytes |->
                                    IF (k - 1) % 2 = 0 THEN <<17, 8>> ELSE <<236, 8>>]
        IN  IF getSize(padded) # capacity
            THEN [err |-> "Bits size does not equal capacity", bits |-> padded]
            ELSE [err |-> "", bits |-> padded]

terminateBits(numDataBytes, bits) ==
  LET capacity == numDataBytes * 8
  IN  IF getSize(bits) > capacity
      THEN [err |-> "data bits cannot fit in the QR Code", bits |-> bits]
      ELSE
        LET terminated == appendTerminator(0, bits, capacity)
            numBitsInLastByte == getSize(terminated) % 8
            aligned == IF numBitsInLastByte > 0
                       THEN terminated \o [k \in 1..(8 - numBitsInLastByte) |-> <<0, 1>>]
                       ELSE terminated
            numPaddingBytes == numDataBytes - getSizeInBytes(aligned)
            \* for (i = 0; i < numPaddingBytes; ++i) appendBits(i even ? 0xec : 0x11, 8)
            padded == aligned \o [k \in 1..numPaddingBytes |->
                                    IF (k - 1) % 2 = 0 THEN <<236, 8>> ELSE <<17, 8>>]
        IN  IF getSize(padded) # capacity
            THEN [err |-> "Bits size does not equal capacity", bits |-> padded]
            ELSE [err |-> "", bits |-> padded]

(***************************************************************************)
(* Header and length fields                                                *)
(***************************************************************************)
\* Encoder.appendModeInfo
appendModeInfo(mode, bits) == Append(bits, <<getBits(mode), 4>>)

\* Encoder.appendECI
appendECI(eci, bits) == bits \o << <<getBits("ECI"), 4>>, <<eci, 8>> >>

\* the test of Encoder.appendLengthInfo: numLetters >= (1 << numBits)
lengthTooBig_above(numLetters, numBits) == numLetters > Pow2(numBits)

lengthTooBig(numLetters, numBits) == numLetters >= Pow2(numBits)

\* Encoder.appendLengthInfo
appendLengthInfo(numLetters, version, mode, bits) ==
  LET numBits == getCharacterCountBits(mode, version)
  IN  IF lengthTooBig(numLetters, numBits)
      THEN [err |-> "is bigger than", bits |-> bits]
      ELSE [err |-> "", bits |-> Append(bits, <<numLetters, numBits>>)]

\* Encoder.calculateBitsNeeded
calculateBitsNeeded(mode, headerBits, dataBits, version) ==
  getSize(headerBits) + getCharacterCountBits(mode, version) + getSize(dataBits)

\* Encoder.recommendVersion
recommendVersion_singlePass(ecLevel, mode, headerBits, dataBits) ==
  chooseVersion(calculateBitsNeeded(mode, headerBits, dataBits, 1), ecLevel)

recommendVersion(ecLevel, mode, headerBits, dataBits) ==
  LET provisionalBitsNeeded == calculateBitsNeeded(mode, headerBits, dataBits, 1)
      provisionalVersion    == chooseVersion(provisionalBitsNeeded, ecLevel)
  IN  IF provisionalVersion.status = "error" THEN provisionalVersion
      ELSE LET bitsNeeded ==
                 calculateBitsNeeded(mode, headerBits, dataBits, provisionalVersion.version)
           IN  chooseVersion(bitsNeeded, ecLevel)

(***************************************************************************)
(* Encoder.encode.  hints.charset is "none" without a CHARACTER_SET hint   *)
(* and hints.version is 0 without a QR_VERSION hint.  What follows         *)
(* terminateBits (interleaving, mask choice, matrix) sets neither the mode *)
(* nor the version of the QRCode returned and is left out here.  The       *)
(* result also carries the header bits that went into the payload.         *)
(***************************************************************************)
\* the header bits of encode: the ECI segment if applicable, then the mode marker
encodeHeaderBits_differsOnly(mode, hasEncodingHint, encoding) ==
  LET eci     == getCharacterSetECIByName(encoding)
      eciBits == IF mode = "BYTE" /\ DEFAULT_BYTE_MODE_ENCODING # encoding /\ eci # -1
                 THEN appendECI(eci, <<>>)
                 ELSE <<>>
  IN  appendModeInfo(mode, eciBits)

encodeHeaderBits(mode, hasEncodingHint, encoding) ==
  LET eci     == getCharacterSetECIByName(encoding)
      eciBits == IF mode = "BYTE" /\ (hasEncodingHint \/ DEFAULT_BYTE_MODE_ENCODING # encoding)
                    /\ eci # -1
                 THEN appendECI(eci, <<>>)
                 ELSE <<>>
  IN  appendModeInfo(mode, eciBits)

encode(content, ecLevel, hints) ==
  LET hasEncodingHint == hints.charset # "none"
      encoding == IF hasEncodingHint THEN hints.charset ELSE DEFAULT_BYTE_MODE_ENCODING
      mode     == chooseMode(content, encoding)
      headerBits == encodeHeaderBits(mode, hasEncodingHint, encoding)
      data       == appendBytes(content, mode, <<>>, encoding)
      dataBits   == data.bits
      chosen     == IF hints.version # 0
                    THEN IF ~willFit(calculateBitsNeeded(mode, headerBits, dataBits, hints.version),
                                     hints.version, ecLevel)
                         THEN Thrown("Data too big for requested version")
                         ELSE [status |-> "ok", version |-> hints.version]
                    ELSE recommendVersion(ecLevel, mode, headerBits, dataBits)
  IN  IF data.err # "" THEN Thrown(data.err)
      ELSE IF chosen.status = "error" THEN chosen
      ELSE
        LET version    == chosen.version
            numLetters == IF mode = "BYTE" THEN getSizeInBytes(dataBits) ELSE Len(content)
            withLength == appendLengthInfo(numLetters, version, mode, headerBits)
            headerAndDataBits == withLength.bits \o dataBits
            numDataBytes == getTotalCodewords(version) - getTotalECCodewords(version, ecLevel)
            terminated == terminateBits(numDataBytes, headerAndDataBits)
        IN  IF withLength.err # "" THEN Thrown(withLength.err)
            ELSE IF terminated.err # "" THEN Thrown(terminated.err)
            ELSE [status |-> "ok", mode |-> mode, version |-> version, ecLevel |-> ecLevel,
                  headerBits |-> headerBits]

(***************************************************************************)
(* SpecEncode: encode applied to a set of contents (short ones of every    *)
(* mode, and the long ones at the edge of version 40), at every level,     *)
(* with and without the two hints.                                         *)
(***************************************************************************)
Repeat(c, n) == [i \in 1..n |-> c]

EncodeContents ==
  { <<>>, <<48>>, <<65>>, <<97>>, <<72, 73, 32, 55>>, <<28857>>, <<28857, 33559>>,
    <<28857, 65>>, <<32394>>, <<8364>>,
    Repeat(65, 100), Repeat(48, 7086), Repeat(48, 7089) }

HintCharsets == {"none"} \cup EncodingNames

HintVersions == {0, 1, 40}

InitEncode ==
  /\ pc = "ready"
  /\ args \in [content : EncodeContents, ecLevel : ErrorCorrectionLevels,
               hints : [charset : HintCharsets, version : HintVersions]]
  /\ result = Pending

Encode ==
  /\ pc = "ready"
  /\ result' = encode(args.content, args.ecLevel, args.hints)
  /\ pc' = "done"
  /\ UNCHANGED args

NextEncode == Encode

SpecEncode == InitEncode /\ [][NextEncode]_vars

NoHints == [charset |-> "none", version |-> 0]

\* the bits the payload of a call needs at a version: mode indicator (and ECI
\* header), character count and data bits
RequiredBits(content, hints, version) ==
  LET encoding == IF hints.charset # "none" THEN hints.charset ELSE DEFAULT_BYTE_MODE_ENCODING
      mode     == chooseMode(content, encoding)
      eciSize  == IF mode = "BYTE" /\ hints.charset # "none" THEN 12 ELSE 0
  IN  eciSize + 4 + getCharacterCountBits(mode, version)
        + getSize(appendBytes(content, mode, <<>>, encoding).bits)

\* C2: a payload whose required bits equal 8 x the data codewords of version
\* 40 at the chosen level is encoded at version 40; '0' repeated 7089 times at
\* level L succeeds with mode Numeric and version 40.
C2_ExactFitAtVersion40 ==
  (/\ pc = "done"
   /\ args.hints.version = 0
   /\ RequiredBits(args.content, args.hints, 40) = 8 * numDataCodewords(40, args.ecLevel))
  => /\ result.status = "ok"
     /\ result.version = 40
     /\ (args.content = Repeat(48, 7089) /\ args.ecLevel = "L") => result.mode = "NUMERIC"

\* C3 as stated: 'A' repeated 100 times at level H, no hints, gives mode
\* Alphanumeric and version 6.
C3_Version6 ==
  (pc = "done" /\ args.content = Repeat(65, 100) /\ args.ecLevel = "H" /\ args.hints = NoHints)
  => (result.status = "ok" /\ result.mode = "ALPHANUMERIC" /\ result.version = 6)

\* C3 amended: 'A' repeated 100 times at level H, no hints, gives mode
\* Alphanumeric and version 8.
C3_Version8 ==
  (pc = "done" /\ args.content = Repeat(65, 100) /\ args.ecLevel = "H" /\ args.hints = NoHints)
  => (result.status = "ok" /\ result.mode = "ALPHANUMERIC" /\ result.version = 8)

C3_Witness ==
  /\ pc = "done"
  /\ args.content = Repeat(65, 100)
  /\ args.ecLevel = "H"
  /\ args.hints = NoHints
  /\ result.status = "ok"

\* C5: for empty content the mode is Byte and the version is 1, at every
\* level and under every charset hint.
C5_EmptyContentIsByte ==
  (pc = "done" /\ args.content = <<>> /\ args.hints.version = 0)
  => (result.status = "ok" /\ result.mode = "BYTE" /\ result.version = 1)

\* the charset encode resolves: the hint, or the default without a hint
ResolvedCharset(hints) ==
  IF hints.charset # "none" THEN hints.charset ELSE DEFAULT_BYTE_MODE_ENCODING

\* the header with the ECI segment: 0111, the 8-bit designator, the mode indicator
HeaderWithECI(mode, charset) ==
  <<0, 1, 1, 1>> \o BitsOf(getCharacterSetECIByName(charset), 8) \o BitsOf(getBits(mode), 4)

\* C11 as stated: the ECI header precedes the mode indicator exactly when the
\* mode is Byte and the resolved charset differs from the default (UTF-8);
\* otherwise the header is the 4-bit mode indicator only.
C11_ECIWhenCharsetDiffers ==
  (pc = "done" /\ result.status = "ok") =>
    IF result.mode = "BYTE" /\ ResolvedCharset(args.hints) # DEFAULT_BYTE_MODE_ENCODING
    THEN Bits(result.headerBits) = HeaderWithECI(result.mode, ResolvedCharset(args.hints))
    ELSE Bits(result.headerBits) = BitsOf(getBits(result.mode), 4)

\* C11 amended: the ECI header precedes the mode indicator exactly when the
\* mode is Byte and a CHARACTER_SET hint is given, also when the hint names
\* the default (UTF-8); otherwise the header is the 4-bit mode indicator only.
C11_ECIWhenCharsetHinted ==
  (pc = "done" /\ result.status = "ok") =>
    IF result.mode = "BYTE" /\ args.hints.charset # "none"
    THEN Bits(result.headerBits) = HeaderWithECI(result.mode, args.hints.charset)
    ELSE Bits(result.headerBits) = BitsOf(getBits(result.mode), 4)

\* "a" with the hint ISO-8859-1: Byte mode behind the ECI header of designator 1
C11_Witness ==
  /\ pc = "done"
  /\ args.content = <<97>>
  /\ args.hints = [charset |-> "ISO8859_1", version |-> 0]
  /\ result.status = "ok"
  /\ result.mode = "BYTE"
  /\ Bits(result.headerBits) = <<0, 1, 1, 1, 0, 0, 0, 0, 0, 0, 0, 1, 0, 1, 0, 0>>

\* the payload of the call can be packed in its mode
PayloadEncodes(content, hints) ==
  LET encoding == ResolvedCharset(hints)
  IN  appendBytes(content, chooseMode(content, encoding), <<>>, encoding).err = ""

\* C12: with a version v forced by hint, encode fails with 'Data too big for
\* requested version' whenever the header, the character count of v and the
\* data bits exceed 8 x the data codewords of v at the level, and a QRCode it
\* returns has version v.
C12_ForcedVersionOrFail ==
  (pc = "done" /\ args.hints.version # 0 /\ PayloadEncodes(args.content, args.hints)) =>
    /\ (RequiredBits(args.content, args.hints, args.hints.version)
          > 8 * numDataCodewords(args.hints.version, args.ecLevel))
         => (result.status = "error" /\ result.message = "Data too big for requested version")
    /\ result.status = "ok" => result.version = args.hints.version

\* 7086 digits forced into version 40 at level M, which holds 18672 bits
C12_Witness ==
  /\ pc = "done"
  /\ args.hints = [charset |-> "none", version |-> 40]
  /\ args.ecLevel = "M"
  /\ Len(args.content) = 7086
  /\ result.status = "error"
  /\ result.message = "Data too big for requested version"

(***************************************************************************)
(* Encoder.chooseMaskPattern.  The matrix built for a mask pattern enters  *)
(* only through the four penalties MaskUtil computes on it, so the         *)
(* matrices are given as rules[k + 1] = <<rule1, rule2, rule3, rule4>> for *)
(* mask pattern k.  minPenalty starts at Number.MAX_SAFE_INTEGER, which is *)
(* kept symbolic: finite is FALSE until a penalty has been stored.         *)
(***************************************************************************)
NUM_MASK_PATTERNS == 8

\* Encoder.calculateMaskPenalty
calculateMaskPenalty(matrix) == matrix[1] + matrix[2] + matrix[3] + matrix[4]

\* penalty < minPenalty; every penalty is below Number.MAX_SAFE_INTEGER
penaltyBelow_orEqual(penalty, minPenalty) ==
  ~minPenalty.finite \/ penalty <= minPenalty.value

penaltyBelow(penalty, minPenalty) ==
  ~minPenalty.finite \/ penalty < minPenalty.value

RECURSIVE chooseMaskPatternFrom(_, _, _, _)
chooseMaskPatternFrom(maskPattern, rules, minPenalty, bestMaskPattern) ==
  IF maskPattern < NUM_MASK_PATTERNS
  THEN LET penalty == calculateMaskPenalty(rules[maskPattern + 1])
       IN  IF penaltyBelow(penalty, minPenalty)
           THEN chooseMaskPatternFrom(maskPattern + 1, rules,
                                      [finite |-> TRUE, value |-> penalty], maskPattern)
           ELSE chooseMaskPatternFrom(maskPattern + 1, rules, minPenalty, bestMaskPattern)
  ELSE bestMaskPattern

chooseMaskPattern(rules) ==
  chooseMaskPatternFrom(0, rules, [finite |-> FALSE, value |-> 0], -1)

(***************************************************************************)
(* SpecMask: chooseMaskPattern applied to every assignment of rule         *)
(* penalties of MaskPenalties to the eight mask patterns.                  *)
(***************************************************************************)
MaxRulePenalty == 2

MaskPenalties == {<<a, 0, 0, 0>> : a \in 0..MaxRulePenalty} \cup {<<0, 0, 0, 1>>}

InitMask ==
  /\ pc = "ready"
  /\ args \in [rules : [1..NUM_MASK_PATTERNS -> MaskPenalties]]
  /\ result = Pending

ChooseMaskPattern ==
  /\ pc = "ready"
  /\ result' = [status |-> "ok", maskPattern |-> chooseMaskPattern(args.rules)]
  /\ pc' = "done"
  /\ UNCHANGED args

NextMask == ChooseMaskPattern

SpecMask == InitMask /\ [][NextMask]_vars

\* the total penalty P1 + P2 + P3 + P4 of mask pattern k
TotalPenalty(rules, k) == rules[k + 1][1] + rules[k + 1][2] + rules[k + 1][3] + rules[k + 1][4]

\* C6: chooseMaskPattern returns a pattern of 0..7 (never -1) whose total
\* penalty is minimal over the eight patterns, and the lowest index among the
\* patterns of minimal penalty.
C6_LowestMinimalPenaltyMask ==
  pc = "done" =>
    /\ result.maskPattern \in 0..7
    /\ \A k \in 0..7 :
         TotalPenalty(args.rules, result.maskPattern) <= TotalPenalty(args.rules, k)
    /\ \A k \in 0..7 :
         k < result.maskPattern
           => TotalPenalty(args.rules, k) > TotalPenalty(args.rules, result.maskPattern)

\* the minimum was shared by two patterns, met through different rules, and
\* the lower one was returned although a higher penalty came first
C6_Witness ==
  /\ pc = "done"
  /\ result.maskPattern = 2
  /\ args.rules[3] = <<1, 0, 0, 0>>
  /\ args.rules[6] = <<0, 0, 0, 1>>
  /\ args.rules[1] = <<2, 0, 0, 0>>

(***************************************************************************)
(* SpecTerminate: terminateBits applied to every bit stream of up to       *)
(* MaxStreamBits bits and every numDataBytes of 0..MaxDataBytes.           *)
(***************************************************************************)
MaxStreamBits == 9

MaxDataBytes == 4

\* the BitArray holding the bits s, appended one at a time
BitArrayOf(s) == [k \in 1..Len(s) |-> <<s[k], 1>>]

InitTerminate ==
  /\ pc = "ready"
  /\ args \in [numDataBytes : 0..MaxDataBytes,
               bits : {BitArrayOf(s) : s \in SeqsUpTo({0, 1}, MaxStreamBits)}]
  /\ result = Pending

TerminateBits ==
  /\ pc = "ready"
  /\ LET r == terminateBits(args.numDataBytes, args.bits)
     IN  result' = [status |-> IF r.err = "" THEN "ok" ELSE "error", bits |-> Bits(r.bits)]
  /\ pc' = "done"
  /\ UNCHANGED args

NextTerminate == TerminateBits

SpecTerminate == InitTerminate /\ [][NextTerminate]_vars

Minimum(a, b) == IF a < b THEN a ELSE b

\* the bits of the pad codewords 0xEC and 0x11
PadEC == <<1, 1, 1, 0, 1, 1, 0, 0>>

Pad11 == <<0, 0, 0, 1, 0, 0, 0, 1>>

\* the stream the claim describes, for s bits and capacity 8 * numDataBytes
TerminatedStream(stream, numDataBytes) ==
  LET s        == Len(stream)
      capacity == 8 * numDataBytes
      ended    == s + Minimum(4, capacity - s)
      aligned  == 8 * ((ended + 7) \div 8)
  IN  stream \o [k \in 1..(aligned - s) |-> 0]
             \o [k \in 1..(capacity - aligned) |->
                   IF ((k - 1) \div 8) % 2 = 0 THEN PadEC[((k - 1) % 8) + 1]
                                                ELSE Pad11[((k - 1) % 8) + 1]]

\* C7: for a stream of s <= 8 * numDataBytes bits terminateBits completes and
\* leaves the s bits, then min(4, 8 * numDataBytes - s) zero bits, then zero
\* bits up to the byte boundary, then bytes 0xEC, 0x11 alternating up to
\* exactly 8 * numDataBytes bits; for a longer stream it throws.
C7_TerminatedAndPadded ==
  pc = "done" =>
    LET stream == Bits(args.bits)
    IN  IF Len(stream) <= 8 * args.numDataBytes
        THEN /\ result.status = "ok"
             /\ result.bits = TerminatedStream(stream, args.numDataBytes)
             /\ Len(result.bits) = 8 * args.numDataBytes
        ELSE result.status = "error"

\* three bits into four data bytes: terminator, alignment, pads EC 11 EC
C7_Witness ==
  /\ pc = "done"
  /\ args.numDataBytes = 4
  /\ Bits(args.bits) = <<1, 0, 1>>
  /\ result.status = "ok"
  /\ result.bits = <<1, 0, 1, 0, 0, 0, 0, 0>> \o PadEC \o Pad11 \o PadEC

(***************************************************************************)
(* QRNumeric.write.  The BitBuffer is the sequence of put(num, length)     *)
(* calls, each a pair <<num, length>>.  charToNum throws on a character    *)
(* that is not a digit; err carries the exception.                         *)
(***************************************************************************)
\* QRNumeric.charToNum: -1 stands for the throw
charToNum(ch) == IF 48 <= ch /\ ch <= 57 THEN ch - 48 ELSE -1

\* QRNumeric.strToNum: -1 when charToNum throws
RECURSIVE strToNumFrom(_, _, _)
strToNumFrom(str, i, num) ==
  IF i < Len(str)
  THEN IF charToNum(str[i + 1]) = -1 THEN -1
       ELSE strToNumFrom(str, i + 1, num * 10 + charToNum(str[i + 1]))
  ELSE num

strToNum(str) == strToNumFrom(str, 0, 0)

\* String.substring(start, end) for 0 <= start <= end
substring(data, start, end) == SubSeq(data, start + 1, Minimum(end, Len(data)))

\* BitBuffer.put, with the throw of strToNum passed on
put(st, num, length) ==
  IF num = -1 THEN [st EXCEPT !.err = "illegal char"]
  ELSE [st EXCEPT !.buffer = Append(st.buffer, <<num, length>>)]

\* the loop while (i + 2 < length)
RECURSIVE QRNumeric_writeLoop(_, _)
QRNumeric_writeLoop(data, st) ==
  IF st.err = "" /\ st.i + 2 < Len(data)
  THEN QRNumeric_writeLoop(data,
         [put(st, strToNum(substring(data, st.i, st.i + 3)), 10) EXCEPT !.i = st.i + 3])
  ELSE st

QRNumeric_write(data, buffer) ==
  LET length == Len(data)
      st     == QRNumeric_writeLoop(data, [i |-> 0, buffer |-> buffer, err |-> ""])
      i      == st.i
  IN  IF st.err # "" THEN st
      ELSE IF i < length
      THEN IF length - i = 1 THEN put(st, strToNum(substring(data, i, i + 1)), 4)
           ELSE IF length - i = 2 THEN put(st, strToNum(substring(data, i, i + 2)), 7)
           ELSE st
      ELSE st

(***************************************************************************)
(* SpecNumeric: both numeric encoders applied to every string of up to     *)
(* MaxDigits digits of NumericChars.                                       *)
(***************************************************************************)
MaxDigits == 7

NumericChars == {48, 53, 57}

InitNumeric ==
  /\ pc = "ready"
  /\ args \in [content : SeqsUpTo(NumericChars, MaxDigits)]
  /\ result = Pending

AppendNumericBytes ==
  /\ pc = "ready"
  /\ LET e == appendNumericBytes(args.content, <<>>)
         q == QRNumeric_write(args.content, <<>>)
     IN  result' = [status |-> IF e.err = "" /\ q.err = "" THEN "ok" ELSE "error",
                    bits |-> e.bits, buffer |-> q.buffer]
  /\ pc' = "done"
  /\ UNCHANGED args

NextNumeric == AppendNumericBytes

SpecNumeric == InitNumeric /\ [][NextNumeric]_vars

\* the decimal value of digits[from..to]
RECURSIVE DecimalValue(_, _, _)
DecimalValue(digits, from, to) ==
  IF from > to THEN 0
  ELSE 10 * DecimalValue(digits, from, to - 1) + (digits[to] - 48)

NumericWidth(groupSize) == CASE groupSize = 3 -> 10 [] groupSize = 2 -> 7 [] groupSize = 1 -> 4

\* the groups of three digits, the last of one or two digits if any
NumericGroups(digits) ==
  LET n == Len(digits)
  IN  [g \in 1..((n + 2) \div 3) |->
         LET from == 3 * (g - 1) + 1
             to   == Minimum(3 * g, n)
         IN  <<DecimalValue(digits, from, to), NumericWidth(to - from + 1)>>]

\* C8: for an all-digit string of length n numeric packing appends each
\* group of 3 digits as its decimal value in 10 bits, a trailing pair in 7
\* bits and a trailing single digit in 4 bits, 10*floor(n/3) + {0,4,7}[n mod 3]
\* bits in all, and Encoder.appendNumericBytes and QRNumeric.write make the
\* same sequence of (value, width) appends.
C8_NumericPacking ==
  pc = "done" =>
    LET n == Len(args.content)
    IN  /\ result.status = "ok"
        /\ result.bits = NumericGroups(args.content)
        /\ result.buffer = result.bits
        /\ getSize(result.bits) = 10 * (n \div 3) + <<0, 4, 7>>[(n % 3) + 1]
        /\ Len(Bits(result.bits)) = getSize(result.bits)

\* five digits: one group of three and a trailing pair
C8_Witness ==
  /\ pc = "done"
  /\ args.content = <<57, 53, 48, 53, 57>>
  /\ result.bits = << <<950, 10>>, <<59, 7>> >>
  /\ result.buffer = << <<950, 10>>, <<59, 7>> >>

(***************************************************************************)
(* SpecAlphanumeric: appendAlphanumericBytes applied to every string of    *)
(* up to MaxAlphanumericLen characters of AlphanumericChars, some of them  *)
(* outside the alphabet.                                                   *)
(***************************************************************************)
MaxAlphanumericLen == 4

AlphanumericChars == {48, 65, 90, 58, 32, 97, 28857}

InitAlphanumeric ==
  /\ pc = "ready"
  /\ args \in [content : SeqsUpTo(AlphanumericChars, MaxAlphanumericLen)]
  /\ result = Pending

AppendAlphanumericBytes ==
  /\ pc = "ready"
  /\ LET r == appendAlphanumericBytes(args.content, <<>>)
     IN  result' = [status |-> IF r.err = "" THEN "ok" ELSE "error", bits |-> r.bits]
  /\ pc' = "done"
  /\ UNCHANGED args

NextAlphanumeric == AppendAlphanumericBytes

SpecAlphanumeric == InitAlphanumeric /\ [][NextAlphanumeric]_vars

\* the code of a character of the 45-character alphabet: digits 0-9, letters
\* 10-35, then space $ % * + - . / :
AlphanumericIndex(c) ==
  CASE c \in 48..57 -> c - 48
    [] c \in 65..90 -> c - 55
    [] c = 32 -> 36 [] c = 36 -> 37 [] c = 37 -> 38 [] c = 42 -> 39 [] c = 43 -> 40
    [] c = 45 -> 41 [] c = 46 -> 42 [] c = 47 -> 43 [] c = 58 -> 44

AlphanumericGroups(content) ==
  LET n == Len(content)
  IN  [g \in 1..((n + 1) \div 2) |->
         IF 2 * g <= n
         THEN <<AlphanumericIndex(content[2 * g - 1]) * 45 + AlphanumericIndex(content[2 * g]), 11>>
         ELSE <<AlphanumericIndex(content[2 * g - 1]), 6>>]

\* C9: for a string of length n over the 45-character alphabet
\* appendAlphanumericBytes appends each pair as c1*45 + c2 in 11 bits and a
\* trailing character as its code in 6 bits, 11*floor(n/2) + 6*(n mod 2) bits
\* in all; with a character outside the alphabet the call fails.
C9_AlphanumericPacking ==
  pc = "done" =>
    LET n == Len(args.content)
    IN  IF CharsOf(args.content) \subseteq AlphanumericSet
        THEN /\ result.status = "ok"
             /\ result.bits = AlphanumericGroups(args.content)
             /\ getSize(result.bits) = 11 * (n \div 2) + 6 * (n % 2)
        ELSE result.status = "error"

\* "Z:A": one pair and a trailing character
C9_Witness ==
  /\ pc = "done"
  /\ args.content = <<90, 58, 65>>
  /\ result.status = "ok"
  /\ result.bits = << <<35 * 45 + 44, 11>>, <<10, 6>> >>

(***************************************************************************)
(* SpecKanji: appendKanjiBytes applied to every string of up to            *)
(* MaxKanjiLen characters of KanjiChars (double-byte characters of both    *)
(* Kanji ranges and outside them, single-byte characters, and a character  *)
(* Shift_JIS cannot encode), and to every character Shift_JIS encodes in   *)
(* one byte, alone and after a kanji.                                      *)
(***************************************************************************)
MaxKanjiLen == 3

KanjiChars == {28857, 33559, 32394, 65393, 65, 8364}

\* the characters with a one-byte Shift_JIS code
SingleByteChars == (0..127) \cup (65377..65439)

KanjiContents ==
  SeqsUpTo(KanjiChars, MaxKanjiLen)
    \cup {<<c>> : c \in SingleByteChars} \cup {<<28857, c>> : c \in SingleByteChars}

InitKanji ==
  /\ pc = "ready"
  /\ args \in [content : KanjiContents]
  /\ result = Pending

AppendKanjiBytes ==
  /\ pc = "ready"
  /\ LET r == appendKanjiBytes(args.content, <<>>)
     IN  result' = [status |-> IF r.err = "" THEN "ok" ELSE "error", bits |-> r.bits]
  /\ pc' = "done"
  /\ UNCHANGED args

NextKanji == AppendKanjiBytes

SpecKanji == InitKanji /\ [][NextKanji]_vars

\* code lies in [0x8140, 0x9FFC] or [0xE040, 0xEBBF]
InKanjiRanges(code) == (33088 <= code /\ code <= 40956) \/ (57408 <= code /\ code <= 60351)

\* (subtracted >> 8) * 0xC0 + (subtracted & 0xFF), subtracted = code - 0x8140
\* in the first range and code - 0xC140 in the second
KanjiValue(code) ==
  LET subtracted == IF code <= 40956 THEN code - 33088 ELSE code - 49472
  IN  (subtracted \div 256) * 192 + (subtracted % 256)

PairCode(bytes, k) == bytes[2 * k - 1] * 256 + bytes[2 * k]

\* C10: appendKanjiBytes succeeds exactly when the Shift_JIS bytes of the
\* content are even in number and every 2-byte code lies in one of the two
\* ranges, and then appends the 13-bit value of each pair; an odd number of
\* bytes or an out-of-range pair makes it fail.
C10_KanjiPacking ==
  (pc = "done" /\ CanEncode(args.content, "SJIS")) =>
    LET bytes == StringEncoding_encode(args.content, "SJIS").bytes
        valid == /\ Len(bytes) % 2 = 0
                 /\ \A k \in 1..(Len(bytes) \div 2) : InKanjiRanges(PairCode(bytes, k))
    IN  IF valid
        THEN /\ result.status = "ok"
             /\ result.bits = [k \in 1..(Len(bytes) \div 2) |-> <<KanjiValue(PairCode(bytes, k)), 13>>]
        ELSE result.status = "error"

\* two kanji, one of each range: 0x935F and 0xE4AA
C10_Witness ==
  /\ pc = "done"
  /\ args.content = <<28857, 33559>>
  /\ result.status = "ok"
  /\ result.bits = << <<3487, 13>>, <<6826, 13>> >>

(***************************************************************************)
(* Encoder.getNumDataBytesAndNumECBytesForBlockID: the data and EC byte    *)
(* counts of one Reed-Solomon block.  The two one-element output arrays    *)
(* are the fields numDataBytesInBlock and numECBytesInBlock of the result. *)
(***************************************************************************)
blockInGroup1_orEqual(blockID, numRsBlocksInGroup1) == blockID <= numRsBlocksInGroup1

blockInGroup1(blockID, numRsBlocksInGroup1) == blockID < numRsBlocksInGroup1

getNumDataBytesAndNumECBytesForBlockID(numTotalBytes, numDataBytes, numRSBlocks, blockID) ==
  IF blockID >= numRSBlocks THEN Thrown("Block ID too large")
  ELSE
    LET numRsBlocksInGroup2   == numTotalBytes % numRSBlocks
        numRsBlocksInGroup1   == numRSBlocks - numRsBlocksInGroup2
        numTotalBytesInGroup1 == numTotalBytes \div numRSBlocks
        numTotalBytesInGroup2 == numTotalBytesInGroup1 + 1
        numDataBytesInGroup1  == numDataBytes \div numRSBlocks
        numDataBytesInGroup2  == numDataBytesInGroup1 + 1
        numEcBytesInGroup1    == numTotalBytesInGroup1 - numDataBytesInGroup1
        numEcBytesInGroup2    == numTotalBytesInGroup2 - numDataBytesInGroup2
    IN  IF numEcBytesInGroup1 # numEcBytesInGroup2 THEN Thrown("EC bytes mismatch")
        ELSE IF numRSBlocks # numRsBlocksInGroup1 + numRsBlocksInGroup2
          THEN Thrown("RS blocks mismatch")
        ELSE IF numTotalBytes #
                  (numDataBytesInGroup1 + numEcBytesInGroup1) * numRsBlocksInGroup1
                  + (numDataBytesInGroup2 + numEcBytesInGroup2) * numRsBlocksInGroup2
          THEN Thrown("Total bytes mismatch")
        ELSE IF blockInGroup1(blockID, numRsBlocksInGroup1)
          THEN [status |-> "ok", numDataBytesInBlock |-> numDataBytesInGroup1,
                numECBytesInBlock |-> numEcBytesInGroup1]
          ELSE [status |-> "ok", numDataBytesInBlock |-> numDataBytesInGroup2,
                numECBytesInBlock |-> numEcBytesInGroup2]

MaxTotalBytes == 12
MaxRSBlocks == 4

InitBlocks ==
  /\ pc = "ready"
  /\ result = Pending
  /\ args \in [numTotalBytes : 1..MaxTotalBytes, numDataBytes : 0..MaxTotalBytes,
               numRSBlocks : 1..MaxRSBlocks, blockID : 0..MaxRSBlocks]

GetNumDataBytesAndNumECBytesForBlockID ==
  /\ pc = "ready"
  /\ pc' = "done"
  /\ result' = getNumDataBytesAndNumECBytesForBlockID(args.numTotalBytes, args.numDataBytes,
                                                      args.numRSBlocks, args.blockID)
  /\ UNCHANGED args

NextBlocks == GetNumDataBytesAndNumECBytesForBlockID

SpecBlocks == InitBlocks /\ [][NextBlocks]_vars

\* the claim's domain: numRSBlocks <= numDataBytes < numTotalBytes, and the
\* EC bytes divide evenly over the blocks
BlockLayoutValid(numTotalBytes, numDataBytes, numRSBlocks) ==
  /\ numRSBlocks >= 1
  /\ numRSBlocks <= numDataBytes
  /\ numDataBytes < numTotalBytes
  /\ (numTotalBytes - numDataBytes) % numRSBlocks = 0

RECURSIVE SumDataBytes(_, _, _, _)
\* the data byte counts of the blocks 0..upTo-1, added up
SumDataBytes(numTotalBytes, numDataBytes, numRSBlocks, upTo) ==
  IF upTo = 0 THEN 0
  ELSE SumDataBytes(numTotalBytes, numDataBytes, numRSBlocks, upTo - 1)
       + getNumDataBytesAndNumECBytesForBlockID(numTotalBytes, numDataBytes, numRSBlocks,
                                                upTo - 1).numDataBytesInBlock

\* C14: on a valid layout, block i gets floor(D/n) data bytes when
\* i < n - (T mod n) and one more otherwise, every block gets
\* floor(T/n) - floor(D/n) EC bytes, no sanity check trips, and the data sizes
\* of the n blocks add up to D; a block id >= n is rejected with an error.
C14_BlockSizes ==
  pc = "done" =>
    LET T == args.numTotalBytes
        D == args.numDataBytes
        n == args.numRSBlocks
        i == args.blockID
    IN  /\ i >= n => result = Thrown("Block ID too large")
        /\ (i < n /\ BlockLayoutValid(T, D, n)) =>
             /\ result.status = "ok"
             /\ result.numDataBytesInBlock =
                  (IF i < n - (T % n) THEN D \div n ELSE (D \div n) + 1)
             /\ result.numECBytesInBlock = (T \div n) - (D \div n)
             /\ SumDataBytes(T, D, n, n) = D

\* 11 bytes, 5 of data, in 3 blocks: the last block has 2 data and 2 EC bytes
C14_Witness ==
  /\ pc = "done"
  /\ args = [numTotalBytes |-> 11, numDataBytes |-> 5, numRSBlocks |-> 3, blockID |-> 2]
  /\ result = [status |-> "ok", numDataBytesInBlock |-> 2, numECBytesInBlock |-> 2]

(***************************************************************************)
(* Encoder.appendLengthInfo on its own: every version and mode, counts     *)
(* around each power of two that is a limit of some character count width, *)
(* appended to a bit array that already holds a header.                    *)
(***************************************************************************)
MaxNumLetters == 3

\* the counts 2^w - 1, 2^w and 2^w + 1 for the widths w of the table
LimitCounts == UNION { {Pow2(w) - 1, Pow2(w), Pow2(w) + 1} : w \in 8..16 }

InitLength ==
  /\ pc = "ready"
  /\ result = Pending
  /\ args \in [numLetters : (0..MaxNumLetters) \cup LimitCounts,
               version : Versions,
               mode : Modes,
               bits : {<<>>, << <<4, 4>> >>, << <<7, 4>>, <<26, 8>>, <<4, 4>> >>}]

AppendLengthInfo ==
  /\ pc = "ready"
  /\ pc' = "done"
  /\ result' = appendLengthInfo(args.numLetters, args.version, args.mode, args.bits)
  /\ UNCHANGED args

NextLength == AppendLengthInfo

SpecLength == InitLength /\ [][NextLength]_vars

RECURSIVE BitsValue(_)
\* the number a sequence of bits spells, most significant bit first
BitsValue(bs) ==
  IF bs = <<>> THEN 0
  ELSE 2 * BitsValue(SubSeq(bs, 1, Len(bs) - 1)) + bs[Len(bs)]

\* C15: with w the character count width of the mode at the version,
\* appendLengthInfo appends numLetters in exactly w bits when
\* numLetters <= 2^w - 1, and throws without appending when numLetters >= 2^w.
C15_LengthInfo ==
  pc = "done" =>
    LET w      == getCharacterCountBits(args.mode, args.version)
        before == Bits(args.bits)
        after  == Bits(result.bits)
    IN  IF args.numLetters <= Pow2(w) - 1
        THEN /\ result.err = ""
             /\ Len(after) = Len(before) + w
             /\ SubSeq(after, 1, Len(before)) = before
             /\ BitsValue(SubSeq(after, Len(before) + 1, Len(after))) = args.numLetters
        ELSE /\ result.err # ""
             /\ after = before

\* 255 letters in Byte mode at version 1 go in as eight 1 bits behind the header
C15_Witness ==
  /\ pc = "done"
  /\ args.numLetters = 255 /\ args.mode = "BYTE" /\ args.version = 1
  /\ args.bits = << <<4, 4>> >>
  /\ result.err = ""
  /\ Bits(result.bits) = <<0, 1, 0, 0, 1, 1, 1, 1, 1, 1, 1, 1>>

(***************************************************************************)
(* Encoder.recommendVersion on its own: every mode and level, the header   *)
(* sizes encode can produce (4 bits, or 16 with the ECI segment in Byte    *)
(* mode) and every data size up to beyond the largest capacity.  Only the  *)
(* sizes of the two bit arrays enter the computation.                      *)
(***************************************************************************)
MaxDataBits == 23660

\* a bit array of the given size
BitArrayOfSize(size) == << <<0, size>> >>

InitRecommend ==
  /\ pc = "ready"
  /\ result = Pending
  /\ args \in { a \in [ecLevel : ErrorCorrectionLevels, mode : Modes,
                       headerSize : {4, 16}, dataSize : 0..MaxDataBits] :
                  a.headerSize = 16 => a.mode = "BYTE" }

RecommendVersion ==
  /\ pc = "ready"
  /\ pc' = "done"
  /\ result' = recommendVersion(args.ecLevel, args.mode, BitArrayOfSize(args.headerSize),
                                BitArrayOfSize(args.dataSize))
  /\ UNCHANGED args

NextRecommend == RecommendVersion

SpecRecommend == InitRecommend /\ [][NextRecommend]_vars

\* C16: when recommendVersion returns a version v, the payload sized with the
\* character count width of v fits v: header + charCountBits(mode, v) + data
\* <= 8 x dataCodewords(v, level), which is the capacity test of terminateBits.
C16_TwoPassEstimateFits ==
  (pc = "done" /\ result.status = "ok") =>
    args.headerSize + getCharacterCountBits(args.mode, result.version) + args.dataSize
      <= 8 * numDataCodewords(result.version, args.ecLevel)

\* 957 data bits in Byte mode at level H: the first guess, made with the 8-bit
\* count of version 1, is version 10; with its 16-bit count the answer is 11
C16_Witness ==
  /\ pc = "done"
  /\ args = [ecLevel |-> "H", mode |-> "BYTE", headerSize |-> 4, dataSize |-> 957]
  /\ result.status = "ok"
  /\ result.version = 11
  /\ chooseVersion(4 + 8 + 957, "H").version = 10

(***************************************************************************)
(* ReedSolomonEncoder over GenericGF.QR_CODE_FIELD_256: the field of 256   *)
(* elements with primitive polynomial 0x011D and generator base 0.         *)
(* A polynomial is the sequence of its coefficients, highest degree first; *)
(* each new polynomial is concatenated with <<>> so that TLC stores it as  *)
(* a tuple of values instead of re-evaluating its definition at each use.  *)
(***************************************************************************)
RECURSIVE addOrSubtract(_, _)
\* GenericGF.addOrSubtract: the bitwise exclusive or of two field elements
addOrSubtract(a, b) ==
  IF a = 0 THEN b
  ELSE IF b = 0 THEN a
  ELSE ((a + b) % 2) + 2 * addOrSubtract(a \div 2, b \div 2)

\* x times a in the field: a shift, reduced by the primitive polynomial
timesAlpha(a) == IF 2 * a >= 256 THEN addOrSubtract(2 * a, 285) ELSE 2 * a

RECURSIVE multiply(_, _)
\* GenericGF.multiply
multiply(a, b) ==
  IF a = 0 \/ b = 0 THEN 0
  ELSE addOrSubtract(IF b % 2 = 1 THEN a ELSE 0, multiply(timesAlpha(a), b \div 2))

RECURSIVE exp(_)
\* GenericGF.exp: alpha to the power i, alpha = 2
exp(i) == IF i = 0 THEN 1 ELSE timesAlpha(exp(i - 1))

\* the polynomial g times (x - r), which in this field is g times (x + r)
timesLinear(g, r) ==
  [j \in 1..(Len(g) + 1) |->
     addOrSubtract(IF j <= Len(g) THEN g[j] ELSE 0,
                   IF j >= 2 THEN multiply(r, g[j - 1]) ELSE 0)] \o <<>>

RECURSIVE buildGeneratorFrom(_, _, _)
\* the loop of ReedSolomonEncoder.buildGenerator: g is the product of
\* (x - alpha^i) for i < d
buildGeneratorFrom(d, degree, g) ==
  IF Len(g) > degree \/ d >= degree THEN g
  ELSE buildGeneratorFrom(d + 1, degree, timesLinear(g, exp(d)))

\* ReedSolomonEncoder.buildGenerator: the product of (x - alpha^i), i = 0..degree-1
buildGenerator(degree) == buildGeneratorFrom(0, degree, <<1>>)

RECURSIVE divideByGenerator(_, _, _, _)
\* the remainder of info * x^degree divided by the generator, coefficient by
\* coefficient from info[k] on; remainder has degree coefficients
divideByGenerator(info, k, generator, remainder) ==
  IF k > Len(info) THEN remainder
  ELSE LET degree   == Len(remainder)
           feedback == addOrSubtract(info[k], remainder[1])
           shifted  == [j \in 1..degree |->
                          addOrSubtract(IF j < degree THEN remainder[j + 1] ELSE 0,
                                        multiply(feedback, generator[j + 1]))] \o <<>>
       IN  divideByGenerator(info, k + 1, generator, shifted)

\* ReedSolomonEncoder.encode, returning the ecBytes coefficients it writes
\* behind the data
ReedSolomonEncoder_encode(dataBytes, ecBytes) ==
  IF ecBytes = 0 THEN [err |-> "No error correction bytes", ecBytes |-> <<>>]
  ELSE IF Len(dataBytes) <= 0 THEN [err |-> "No data bytes provided", ecBytes |-> <<>>]
  ELSE [err |-> "",
        ecBytes |-> divideByGenerator(dataBytes, 1, buildGenerator(ecBytes),
                                      [j \in 1..ecBytes |-> 0])]

\* Encoder.generateECBytes
generateECBytes(dataBytes, numEcBytesInBlock) ==
  ReedSolomonEncoder_encode([k \in 1..Len(dataBytes) |-> dataBytes[k] % 256],
                            numEcBytesInBlock)

(***************************************************************************)
(* Encoder.interleaveWithECBytes.  The data bits arrive as a BitArray of   *)
(* whole bytes, as terminateBits leaves them; the result carries the       *)
(* interleaved BitArray and the BlockPair list the code built.             *)
(***************************************************************************)
\* BitArray.toBytes: numBytes bytes read from bit bitOffset on; a bit past
\* the end of the array reads as 0
toBytes(bits, bitOffset, numBytes) ==
  LET all == Bits(bits)
  IN  [j \in 1..numBytes |->
         BitsValue([k \in 1..8 |->
                      IF bitOffset + 8 * (j - 1) + k <= Len(all)
                      THEN all[bitOffset + 8 * (j - 1) + k] ELSE 0])] \o <<>>

\* Math.max
Max(a, b) == IF a > b THEN a ELSE b

RECURSIVE divideIntoBlocks(_, _, _, _, _, _)
\* step 1, the loop over the block ids from i on; st holds the locals
\* blocks, dataBytesOffset, maxNumDataBytes and maxNumEcBytes
divideIntoBlocks(bits, numTotalBytes, numDataBytes, numRSBlocks, i, st) ==
  IF st.err # "" \/ i >= numRSBlocks THEN st
  ELSE
    LET counts    == getNumDataBytesAndNumECBytesForBlockID(numTotalBytes, numDataBytes,
                                                            numRSBlocks, i)
        size      == counts.numDataBytesInBlock
        dataBytes == toBytes(bits, 8 * st.dataBytesOffset, size)
        ec        == generateECBytes(dataBytes, counts.numECBytesInBlock)
    IN  divideIntoBlocks(bits, numTotalBytes, numDataBytes, numRSBlocks, i + 1,
          IF ec.err # "" THEN [st EXCEPT !.err = ec.err]
          ELSE [err |-> "",
                blocks |-> Append(st.blocks, [dataBytes |-> dataBytes, ecBytes |-> ec.ecBytes]),
                dataBytesOffset |-> st.dataBytesOffset + size,
                maxNumDataBytes |-> Max(st.maxNumDataBytes, size),
                maxNumEcBytes   |-> Max(st.maxNumEcBytes, Len(ec.ecBytes))])

RECURSIVE placeBlocks_blockMajor(_, _, _, _)
placeBlocks_blockMajor(parts, maxNum, i, out) ==
  IF i >= Len(parts) THEN out
  ELSE placeBlocks_blockMajor(parts, maxNum, i + 1,
         out \o [k \in 1..Len(parts[i + 1]) |-> <<parts[i + 1][k], 8>>])

RECURSIVE placeBlocks(_, _, _, _)
\* the placing loops: for i < maxNum, for each block in order, byte i of the
\* block's part (data or EC bytes) if it has one
placeBlocks(parts, maxNum, i, out) ==
  IF i >= maxNum THEN out
  ELSE placeBlocks(parts, maxNum, i + 1,
         out \o [k \in 1..Len(SelectSeq(parts, LAMBDA p : i < Len(p))) |->
                      <<SelectSeq(parts, LAMBDA p : i < Len(p))[k][i + 1], 8>>])

interleaveWithECBytes(bits, numTotalBytes, numDataBytes, numRSBlocks) ==
  IF getSizeInBytes(bits) # numDataBytes
  THEN Thrown("Number of bits and data bytes does not match")
  ELSE
    LET st == divideIntoBlocks(bits, numTotalBytes, numDataBytes, numRSBlocks, 0,
                [err |-> "", blocks |-> <<>>, dataBytesOffset |-> 0,
                 maxNumDataBytes |-> 0, maxNumEcBytes |-> 0])
        dataParts == [b \in 1..Len(st.blocks) |-> st.blocks[b].dataBytes]
        ecParts   == [b \in 1..Len(st.blocks) |-> st.blocks[b].ecBytes]
        withData  == placeBlocks(dataParts, st.maxNumDataBytes, 0, <<>>)
        withEC    == placeBlocks(ecParts, st.maxNumEcBytes, 0, withData)
    IN  IF st.err # "" THEN Thrown(st.err)
        ELSE IF numDataBytes # st.dataBytesOffset
          THEN Thrown("Data bytes does not match offset")
        ELSE IF numTotalBytes # getSizeInBytes(withEC) THEN Thrown("Interleaving error")
        ELSE [status |-> "ok", bits |-> withEC, blocks |-> st.blocks]

MaxInterleaveTotal == 9
MaxInterleaveData == 5

\* the byte values the data is drawn from
InterleaveBytes == {0, 1, 255}

\* the BitArray that holds the given bytes
BitArrayOfBytes(bytes) == [k \in 1..Len(bytes) |-> <<bytes[k], 8>>]

InitInterleave ==
  /\ pc = "ready"
  /\ result = Pending
  /\ args \in { a \in [bits : {BitArrayOfBytes(s) :
                                 s \in SeqsUpTo(InterleaveBytes, MaxInterleaveData)},
                       numTotalBytes : 1..MaxInterleaveTotal,
                       numDataBytes : 0..MaxInterleaveTotal,
                       numRSBlocks : 1..MaxRSBlocks] :
                  a.numDataBytes < a.numTotalBytes }

InterleaveWithECBytes ==
  /\ pc = "ready"
  /\ pc' = "done"
  /\ result' = interleaveWithECBytes(args.bits, args.numTotalBytes, args.numDataBytes,
                                     args.numRSBlocks)
  /\ UNCHANGED args

NextInterleave == InterleaveWithECBytes

SpecInterleave == InitInterleave /\ [][NextInterleave]_vars

\* the data bytes of block b (from 0) by the layout rule: floor(D/n), one
\* more for the last T mod n blocks
BlockDataSize(T, D, n, b) == IF b < n - (T % n) THEN D \div n ELSE (D \div n) + 1

RECURSIVE BlockOffset(_, _, _, _)
\* where block b starts in the input: the sizes of the blocks before it
BlockOffset(T, D, n, b) ==
  IF b = 0 THEN 0 ELSE BlockOffset(T, D, n, b - 1) + BlockDataSize(T, D, n, b - 1)

\* the bytes of the blocks, each named <<block, index>>, both from 0
BlockBytes(T, D, n) ==
  { q \in (0..(n - 1)) \X (0..D) : q[2] < BlockDataSize(T, D, n, q[1]) }

\* the place (from 1) of byte i of block b in the data part: behind every
\* byte of a lower index and the bytes of index i of the blocks before b
DataPosition(T, D, n, b, i) ==
  1 + Cardinality({ q \in BlockBytes(T, D, n) : q[2] < i \/ (q[2] = i /\ q[1] < b) })

\* C13: the output is the data bytes taken index by index across the blocks
\* in block order (a block contributes while it has a byte of that index),
\* then the EC bytes likewise; the blocks are consecutive slices of the input,
\* every input byte has exactly one place in the data part, and the output
\* has numTotalBytes bytes.
C13_InterleaveOrder ==
  (pc = "done" /\ result.status = "ok") =>
    LET T    == args.numTotalBytes
        D    == args.numDataBytes
        n    == args.numRSBlocks
        in   == args.bits
        out  == result.bits
        ecs  == (T \div n) - (D \div n)
    IN  /\ Len(out) = T
        /\ \A k \in 1..T : out[k][2] = 8
        /\ Len(result.blocks) = n
        /\ \A b \in 0..(n - 1) :
             /\ result.blocks[b + 1].dataBytes =
                  [i \in 1..BlockDataSize(T, D, n, b) |-> in[BlockOffset(T, D, n, b) + i][1]]
             /\ Len(result.blocks[b + 1].ecBytes) = ecs
             /\ \A i \in 0..(BlockDataSize(T, D, n, b) - 1) :
                  out[DataPosition(T, D, n, b, i)][1] = in[BlockOffset(T, D, n, b) + i + 1][1]
             /\ \A i \in 0..(ecs - 1) :
                  out[D + i * n + b + 1][1] = result.blocks[b + 1].ecBytes[i + 1]
        /\ Cardinality(BlockBytes(T, D, n)) = D
        /\ { DataPosition(T, D, n, q[1], q[2]) : q \in BlockBytes(T, D, n) } = 1..D

\* 9 bytes, 5 of data, in blocks of 2 and 3: the data goes out in the order
\* 1st, 3rd, 2nd, 4th, 5th byte, followed by the four EC bytes
C13_Witness ==
  /\ pc = "done"
  /\ args = [bits |-> BitArrayOfBytes(<<1, 255, 0, 1, 255>>),
             numTotalBytes |-> 9, numDataBytes |-> 5, numRSBlocks |-> 2]
  /\ result.status = "ok"
  /\ [k \in 1..5 |-> result.bits[k][1]] = <<1, 0, 255, 1, 255>>
  /\ Len(result.bits) = 9

(***************************************************************************)
(* Decoder.decode.  binarize is represented here by what decode needs of   *)
(* it: the test of the data length and which of the two matrices it        *)
(* returns.  A matrix is named "binarized" or "inverted"; a property that  *)
(* binarize did not return is "undefined".  What locate, extract and the   *)
(* bit-matrix decoder find in a matrix is an input: args.found is the set  *)
(* of matrices in which a code can be read.                                *)
(***************************************************************************)
InversionAttempts == {"dontInvert", "onlyInvert", "attemptBoth", "invertFirst"}

\* defaultOptions.inversionAttempts
defaultOptions == "attemptBoth"

\* binarize: the length test, and the object returned at the end
binarize(dataLength, width, height, returnInverted) ==
  IF dataLength # width * height * 4
  THEN [status |-> "error", message |-> "malformed data passed to binarizer",
        binarized |-> "undefined", inverted |-> "undefined"]
  ELSE [status |-> "ok", message |-> "",
        binarized |-> "binarized",
        inverted |-> IF returnInverted THEN "inverted" ELSE "undefined"]

\* the module function scan: null unless a code is located and decoded.
\* locate is handed the matrix first; what it does with undefined is given
\* by onUndefined ("TypeError" or "null")
scan(matrix, found, onUndefined) ==
  IF matrix = "undefined"
  THEN IF onUndefined = "TypeError"
       THEN [status |-> "error", message |-> "TypeError", value |-> "null"]
       ELSE [status |-> "ok", message |-> "", value |-> "null"]
  ELSE [status |-> "ok", message |-> "",
        value |-> IF matrix \in found THEN matrix ELSE "null"]

\* Decoder.decode
decode(inversionAttempts, dataLength, width, height, found, onUndefined) ==
  LET shouldInvert     == inversionAttempts \in {"attemptBoth", "invertFirst"}
      tryInvertedFirst == inversionAttempts \in {"onlyInvert", "invertFirst"}
      matrices == binarize(dataLength, width, height, shouldInvert)
      produced == {matrices.binarized, matrices.inverted} \ {"undefined"}
      first    == IF tryInvertedFirst THEN matrices.inverted ELSE matrices.binarized
      second   == IF tryInvertedFirst THEN matrices.binarized ELSE matrices.inverted
      result1  == scan(first, found, onUndefined)
      result2  == scan(second, found, onUndefined)
  IN  IF matrices.status = "error"
      THEN [status |-> "error", message |-> matrices.message, value |-> "null",
            scanned |-> <<>>, produced |-> {}]
      ELSE IF result1.status = "error"
      THEN [status |-> "error", message |-> result1.message, value |-> "null",
            scanned |-> <<first>>, produced |-> produced]
      ELSE IF result1.value = "null" /\ inversionAttempts \in {"attemptBoth", "invertFirst"}
      THEN [status |-> result2.status, message |-> result2.message, value |-> result2.value,
            scanned |-> <<first, second>>, produced |-> produced]
      ELSE [status |-> "ok", message |-> "", value |-> result1.value,
            scanned |-> <<first>>, produced |-> produced]

MaxImageDim == 3

InitDecode ==
  /\ pc = "ready"
  /\ result = Pending
  /\ args \in { a \in [inversionAttempts : InversionAttempts,
                       width : 1..MaxImageDim, height : 1..MaxImageDim,
                       dataLength : 0..(4 * MaxImageDim * MaxImageDim),
                       found : SUBSET {"binarized", "inverted"}] :
                  a.dataLength \in {4 * a.width * a.height, 4 * a.width * a.height - 1} }

Decode ==
  /\ pc = "ready"
  /\ pc' = "done"
  /\ \E onUndefined \in {"TypeError", "null"} :
       result' = decode(args.inversionAttempts, args.dataLength, args.width, args.height,
                        args.found, onUndefined)
  /\ UNCHANGED args

NextDecode == Decode

SpecDecode == InitDecode /\ [][NextDecode]_vars

\* C17: under each of the four options every matrix handed to scan is one
\* that binarize produced; a second scan happens only when the first gave no
\* result and the option is 'attemptBoth' or 'invertFirst', and it scans the
\* other matrix.
C17_ScansProducedMatrices ==
  (pc = "done" /\ result.message # "malformed data passed to binarizer") =>
    /\ \A k \in 1..Len(result.scanned) : result.scanned[k] \in result.produced
    /\ Len(result.scanned) \in {1, 2}
    /\ Len(result.scanned) = 2 =>
         /\ result.scanned[1] \notin args.found
         /\ args.inversionAttempts \in {"attemptBoth", "invertFirst"}
         /\ result.scanned[2] # result.scanned[1]

(***************************************************************************)
(* Decoder.scan(src): the promise and the two event handlers of the image. *)
(* pc follows the call and the handler that runs: "loading" once the       *)
(* executor has set the handlers and image.src, "load_disposed" and        *)
(* "error_disposed" after the handler's call of disposeImageEvents, and    *)
(* "handled" when the handler has ended, by a return or by an exception.   *)
(* The canvas returns 4 * width * height bytes of image data.              *)
(***************************************************************************)
\* the state created by the executor: handlers set, nothing settled
PromisePending ==
  [promise |-> "pending", value |-> "none", onload |-> "handler", onerror |-> "handler",
   settlements |-> 0, event |-> "none", decoded |-> "none", thrown |-> ""]

\* resolve and reject: the first call settles the promise, later ones do nothing
settle(state, how, value) ==
  IF state.promise = "pending"
  THEN [state EXCEPT !.promise = how, !.value = value, !.settlements = @ + 1]
  ELSE [state EXCEPT !.settlements = @ + 1]

\* disposeImageEvents
disposeImageEvents(state) == [state EXCEPT !.onload = "null", !.onerror = "null"]

InitScan ==
  /\ pc = "ready"
  /\ result = Pending
  /\ args \in [inversionAttempts : InversionAttempts,
               width : 1..MaxImageDim, height : 1..MaxImageDim,
               found : SUBSET {"binarized", "inverted"}]

\* the call: new Promise, whose executor sets onload, onerror and image.src
ScanCall ==
  /\ pc = "ready"
  /\ pc' = "loading"
  /\ result' = PromisePending
  /\ UNCHANGED args

\* the load event: the handler starts with disposeImageEvents
OnLoadDispose ==
  /\ pc = "loading"
  /\ result.onload = "handler"
  /\ pc' = "load_disposed"
  /\ result' = [disposeImageEvents(result) EXCEPT !.event = "load"]
  /\ UNCHANGED args

\* the rest of the load handler: the canvas, decode, resolve or reject
OnLoadDecode ==
  /\ pc = "load_disposed"
  /\ pc' = "handled"
  /\ \E onUndefined \in {"TypeError", "null"} :
       LET decoded == decode(args.inversionAttempts, 4 * args.width * args.height,
                             args.width, args.height, args.found, onUndefined)
       IN  result' =
             IF decoded.status = "error"
             THEN [result EXCEPT !.thrown = decoded.message]
             ELSE IF decoded.value # "null"
             THEN [settle(result, "resolved", decoded.value) EXCEPT !.decoded = decoded.value]
             ELSE [settle(result, "rejected", "failed to decode image")
                     EXCEPT !.decoded = "null"]
  /\ UNCHANGED args

\* the error event: the handler starts with disposeImageEvents
OnErrorDispose ==
  /\ pc = "loading"
  /\ result.onerror = "handler"
  /\ pc' = "error_disposed"
  /\ result' = [disposeImageEvents(result) EXCEPT !.event = "error"]
  /\ UNCHANGED args

\* the rest of the error handler
OnErrorReject ==
  /\ pc = "error_disposed"
  /\ pc' = "handled"
  /\ result' = settle(result, "rejected", "failed to load image")
  /\ UNCHANGED args

NextScan == ScanCall \/ OnLoadDispose \/ OnLoadDecode \/ OnErrorDispose \/ OnErrorReject

SpecScan == InitScan /\ [][NextScan]_vars

\* C18: once the load or error event fires both handlers are cleared first;
\* the promise is settled exactly once on every path through the handler,
\* resolved with the result when decode returns one, rejected with 'failed to
\* decode image' when decode returns null and with 'failed to load image' on
\* the error event; it is not pending once the event has been handled.
C18_SettledOnceWhenHandled ==
  /\ pc \in {"load_disposed", "error_disposed", "handled"} =>
       (result.onload = "null" /\ result.onerror = "null")
  /\ pc \in {"loading", "load_disposed", "error_disposed"} =>
       (result.promise = "pending" /\ result.settlements = 0)
  /\ pc = "handled" =>
       /\ result.promise # "pending"
       /\ result.settlements = 1
       /\ result.event = "error" =>
            (result.promise = "rejected" /\ result.value = "failed to load image")
       /\ (result.event = "load" /\ result.decoded = "null") =>
            (result.promise = "rejected" /\ result.value = "failed to decode image")
       /\ (result.event = "load" /\ result.decoded \notin {"null", "none"}) =>
            (result.promise = "resolved" /\ result.value = result.decoded)

(***************************************************************************)
(* binarize: the coordinates at which it reads and writes its matrices.    *)
(* Matrix.get and Matrix.set take any coordinates and index the flat array *)
(* at y * width + x without a test, so every coordinate the loops produce  *)
(* is an access.  The pixel values themselves play no part in which        *)
(* coordinates the loops visit, except for the three neighbour reads of    *)
(* the black point estimate, which are made for low-contrast regions only; *)
(* they are counted as reads, a region of any contrast being possible.     *)
(***************************************************************************)
REGION_SIZE == 8

\* numBetween
numBetween(value, min, max) == IF value < min THEN min ELSE IF value > max THEN max ELSE value

\* Math.ceil(size / REGION_SIZE)
regionCount(size) == (size + REGION_SIZE - 1) \div REGION_SIZE

\* all regions, as <<hortizontalRegion, verticalRegion>>
Regions(width, height) == (0..(regionCount(width) - 1)) \X (0..(regionCount(height) - 1))

\* greyscalePixels.set in the conversion loop
greyscaleWrites(width, height) == (0..(width - 1)) \X (0..(height - 1))

\* greyscalePixels.get in the black point loop and in the threshold loop:
\* both visit REGION_SIZE x REGION_SIZE pixels of every region
greyscaleReads(width, height) ==
  { <<r[1] * REGION_SIZE + p[1], r[2] * REGION_SIZE + p[2]>> :
      r \in Regions(width, height), p \in (0..(REGION_SIZE - 1)) \X (0..(REGION_SIZE - 1)) }

\* blackPoints.get for the neighbours of a low-contrast region
neighbourReads(width, height) ==
  UNION { {<<r[1], r[2] - 1>>, <<r[1] - 1, r[2]>>, <<r[1] - 1, r[2] - 1>>} :
            r \in { q \in Regions(width, height) : q[2] > 0 /\ q[1] > 0 } }

\* blackPoints.get for the threshold: the 5 x 5 regions around <<left, top>>
thresholdReads(width, height) ==
  { <<numBetween(r[1], 2, regionCount(width) - 3) + d[1],
      numBetween(r[2], 2, regionCount(height) - 3) + d[2]>> :
      r \in Regions(width, height), d \in (-2..2) \X (-2..2) }

\* binarized.set, and inverted.set when returnInverted
bitMatrixWrites(width, height) ==
  { <<r[1] * REGION_SIZE + p[1], r[2] * REGION_SIZE + p[2]>> :
      r \in Regions(width, height), p \in (0..(REGION_SIZE - 1)) \X (0..(REGION_SIZE - 1)) }

\* one call of binarize: what it returns or throws, and its accesses
binarizeAccesses(dataLength, width, height, returnInverted) ==
  LET returned == binarize(dataLength, width, height, returnInverted)
  IN  IF returned.status = "error"
      THEN [returned |-> returned, greyscaleWrites |-> {}, greyscaleReads |-> {},
            blackPointReads |-> {}, bitMatrixWrites |-> {}]
      ELSE [returned |-> returned,
            greyscaleWrites |-> greyscaleWrites(width, height),
            greyscaleReads  |-> greyscaleReads(width, height),
            blackPointReads |-> neighbourReads(width, height) \cup thresholdReads(width, height),
            bitMatrixWrites |-> bitMatrixWrites(width, height)]

MaxBinarizeDim == 41

InitBinarize ==
  /\ pc = "ready"
  /\ result = Pending
  /\ args \in [width : 1..MaxBinarizeDim, height : 1..MaxBinarizeDim,
               lengthOffset : {0, 4}, returnInverted : BOOLEAN]

\* data.length is 4 * width * height + lengthOffset
Binarize ==
  /\ pc = "ready"
  /\ pc' = "done"
  /\ result' = binarizeAccesses(4 * args.width * args.height + args.lengthOffset,
                                args.width, args.height, args.returnInverted)
  /\ UNCHANGED args

NextBinarize == Binarize

SpecBinarize == InitBinarize /\ [][NextBinarize]_vars

\* the pixels of the image
Pixels(width, height) == (0..(width - 1)) \X (0..(height - 1))

\* C19: for width, height >= 1 and data of 4 * width * height bytes every
\* pixel read or written lies in the image and every black point read lies
\* in the region grid; data of another length makes binarize throw before
\* any output.
C19_BinarizeInBounds ==
  pc = "done" =>
    IF args.lengthOffset = 0
    THEN /\ result.returned.status = "ok"
         /\ result.greyscaleWrites \subseteq Pixels(args.width, args.height)
         /\ result.greyscaleReads \subseteq Pixels(args.width, args.height)
         /\ result.bitMatrixWrites \subseteq Pixels(args.width, args.height)
         /\ result.blackPointReads \subseteq Regions(args.width, args.height)
    ELSE /\ result.returned.status = "error"
         /\ result.returned.message = "malformed data passed to binarizer"
         /\ result.returned.binarized = "undefined"
         /\ result.bitMatrixWrites = {}

====
